---- MODULE Spec2Model ----
(***************************************************************************)
(* Model of src/app.py: the redaction utilities (_stable_tag, the seven    *)
(* compiled patterns, _scrub_str, scrub, allowlist, make_safe_payload) and *)
(* the Lambda entry point (lambda_handler and its helpers).                *)
(*                                                                         *)
(* Python str values are TLA+ strings; a character is a string of length   *)
(* one.  Positions are 1-based, and a match is the half-open range lo..hi-1*)
(* written [lo |-> lo, hi |-> hi].                                         *)
(***************************************************************************)
EXTENDS Integers, Sequences, FiniteSets, TLC

(***************************************************************************)
(* Characters and character classes of the `re` module (ASCII inputs).     *)
(***************************************************************************)
\* s[lo-1:hi] of Python: the characters lo..hi of s that exist
Slice(s, lo, hi) ==
    LET a == IF lo < 1 THEN 1 ELSE lo
        b == IF hi > Len(s) THEN Len(s) ELSE hi
    IN  IF a > b THEN "" ELSE SubSeq(s, a, b)

Ch(s, i) == IF i >= 1 /\ i <= Len(s) THEN SubSeq(s, i, i) ELSE ""

Digit == {"0", "1", "2", "3", "4", "5", "6", "7", "8", "9"}

Lower == {"a", "b", "c", "d", "e", "f", "g", "h", "i", "j", "k", "l", "m",
          "n", "o", "p", "q", "r", "s", "t", "u", "v", "w", "x", "y", "z"}

Upper == {"A", "B", "C", "D", "E", "F", "G", "H", "I", "J", "K", "L", "M",
          "N", "O", "P", "Q", "R", "S", "T", "U", "V", "W", "X", "Y", "Z"}

Alpha == Lower \cup Upper

\* \w of the re module
WordChar == Alpha \cup Digit \cup {"_"}

\* the whitespace that \S excludes
SpaceChar == {" ", "\t", "\n", "\r"}

\* \b: exactly one side of position i (between s[i-1] and s[i]) is a \w
IsBoundary(s, i) == (Ch(s, i - 1) \in WordChar) # (Ch(s, i) \in WordChar)

(***************************************************************************)
(* Regular expressions as trees:                                           *)
(*   Cls(C)          one character of the set C                            *)
(*   NotCls(C)       one character outside the set C                       *)
(*   Wb              \b                                                    *)
(*   Cat(<<...>>)    concatenation                                         *)
(*   Alt(<<...>>)    alternation                                           *)
(*   Rep(r,m,n)      r{m,n}                                                *)
(* Ends(r, s, P) is the set of positions at which a match of r can end     *)
(* when it starts at a position of P: the ends a backtracking matcher can  *)
(* reach.  Which of them `re` reports is the pattern's preference (below). *)
(***************************************************************************)
Unbounded == 1000000

Cls(C) == [t |-> "cls", c |-> C]
NotCls(C) == [t |-> "ncls", c |-> C]
Lit(ch) == [t |-> "cls", c |-> {ch}]
Wb == [t |-> "wb"]
Cat(rs) == [t |-> "cat", rs |-> rs]
Alt(rs) == [t |-> "alt", rs |-> rs]
Rep(r, m, n) == [t |-> "rep", r |-> r, min |-> m, max |-> n]

Min(a, b) == IF a < b THEN a ELSE b

OneChar(r, s, i) ==
    /\ i <= Len(s)
    /\ IF r.t = "cls" THEN Ch(s, i) \in r.c ELSE Ch(s, i) \notin r.c

\* the length of the longest run of characters accepted by r from position i
RunLen(r, s, i) ==
    LET stops == {k \in 0..(Len(s) - i + 1) : ~OneChar(r, s, i + k)}
    IN  CHOOSE k \in stops : \A m \in stops : k <= m

RECURSIVE Ends(_, _, _)
RECURSIVE CatEnds(_, _, _, _)
RECURSIVE RepEnds(_, _, _, _)

\* the positions after the regexes k.. of rs, P being those before rs[k]
CatEnds(rs, k, s, P) ==
    IF k > Len(rs) \/ P = {} THEN P
    ELSE CatEnds(rs, k + 1, s, Ends(rs[k], s, P))

\* the positions after k, k+1, ..., r.max repetitions of r.r that are at
\* least r.min repetitions, P being the positions after k of them
RepEnds(r, k, s, P) ==
    LET here == IF k >= r.min THEN P ELSE {}
        next == Ends(r.r, s, P)
    IN  IF k >= r.max \/ next = {} THEN here
        ELSE here \cup RepEnds(r, k + 1, s, next)

Ends(r, s, P) ==
    IF P = {} THEN {}
    ELSE CASE r.t \in {"cls", "ncls"} -> {i + 1 : i \in {j \in P : OneChar(r, s, j)}}
           [] r.t = "wb" -> {i \in P : IsBoundary(s, i)}
           [] r.t = "cat" -> CatEnds(r.rs, 1, s, P)
           [] r.t = "alt" -> UNION {Ends(r.rs[k], s, P) : k \in 1..Len(r.rs)}
           [] r.t = "rep" ->
                IF r.r.t \in {"cls", "ncls"}
                THEN UNION {{i + k : k \in r.min..Min(r.max, RunLen(r.r, s, i))} : i \in P}
                ELSE RepEnds(r, 0, s, P)

SetMax(S) == CHOOSE x \in S : \A y \in S : y <= x
SetMin(S) == CHOOSE x \in S : \A y \in S : x <= y

\* The end `re` reports for a match of pattern p starting at i, 0 for no
\* match.  The backtracking matcher reports the first end it reaches:
\*  - p.lazy = FALSE, every quantifier greedy: the ends of _email_re, _url_re
\*    and _domain_re from one start are reached longest first (a shorter end
\*    needs an earlier "\." or "\b" split, tried later); _ssn_re, _acct_re and
\*    _ip_re have at most one end;
\*  - p.lazy = TRUE, _card_re: "[ -]*?" takes a separator only when the
\*    shortest continuation fails, so the digits of a run are taken and the
\*    match stops at the first end of a run with 13 or more digits consumed.
MatchEnd(p, s, i) ==
    LET E == Ends(p.re, s, {i})
    IN  IF E = {} THEN 0 ELSE IF p.lazy THEN SetMin(E) ELSE SetMax(E)

\* pattern.finditer(s): the non-overlapping matches, leftmost first.  Every
\* pattern of the program matches at least one character, so the scan
\* resumes at the end of the previous match.
RECURSIVE Leftmost(_, _)
Leftmost(C, from) ==
    LET later == {m \in C : m.lo >= from}
    IN  IF later = {} THEN <<>>
        ELSE LET m == CHOOSE x \in later : \A y \in later : x.lo <= y.lo
             IN  <<m>> \o Leftmost(C, m.hi)

FindAll(p, s) ==
    LET C == {m \in {[lo |-> i, hi |-> MatchEnd(p, s, i)] : i \in 1..Len(s)} :
                 m.hi # 0}
    IN  Leftmost(C, 1)

(***************************************************************************)
(* The compiled patterns, src/app.py lines 17-23.                          *)
(***************************************************************************)
EmailLocal == Alpha \cup Digit \cup {".", "_", "%", "+", "-"}
EmailHost == Alpha \cup Digit \cup {".", "-"}

\* [A-Za-z0-9._%+-]+@[A-Za-z0-9.-]+\.[A-Za-z]{2,}
_email_re ==
    Cat(<<Rep(Cls(EmailLocal), 1, Unbounded), Lit("@"),
          Rep(Cls(EmailHost), 1, Unbounded), Lit("."),
          Rep(Cls(Alpha), 2, Unbounded)>>)

\* \b(?:\d[ -]*?){13,19}\b
_card_re ==
    Cat(<<Wb,
          Rep(Cat(<<Cls(Digit), Rep(Cls({" ", "-"}), 0, Unbounded)>>),
              13, 19),
          Wb>>)

\* \b\d{3}-\d{2}-\d{4}\b
_ssn_re ==
    Cat(<<Wb, Rep(Cls(Digit), 3, 3), Lit("-"),
          Rep(Cls(Digit), 2, 2), Lit("-"),
          Rep(Cls(Digit), 4, 4), Wb>>)

\* \b\d{6,18}\b
_acct_re == Cat(<<Wb, Rep(Cls(Digit), 6, 18), Wb>>)

\* 25[0-5]|2[0-4]\d|[01]?\d?\d
Octet ==
    Alt(<<Cat(<<Lit("2"), Lit("5"), Cls({"0", "1", "2", "3", "4", "5"})>>),
          Cat(<<Lit("2"), Cls({"0", "1", "2", "3", "4"}), Cls(Digit)>>),
          Cat(<<Rep(Cls({"0", "1"}), 0, 1), Rep(Cls(Digit), 0, 1),
                Cls(Digit)>>)>>)

\* \b(?:(?:OCTET)\.){3}(?:OCTET)\b
_ip_re == Cat(<<Wb, Rep(Cat(<<Octet, Lit(".")>>), 3, 3), Octet, Wb>>)

\* \bhttps?://\S+\b with re.IGNORECASE
_url_re ==
    Cat(<<Wb, Cls({"h", "H"}), Cls({"t", "T"}), Cls({"t", "T"}), Cls({"p", "P"}),
          Rep(Cls({"s", "S"}), 0, 1), Lit(":"), Lit("/"), Lit("/"),
          Rep(NotCls(SpaceChar), 1, Unbounded), Wb>>)

\* \b([A-Za-z0-9-]+\.)+[A-Za-z]{2,}\b
_domain_re ==
    Cat(<<Wb,
          Rep(Cat(<<Rep(Cls(Alpha \cup Digit \cup {"-"}), 1, Unbounded),
                    Lit(".")>>), 1, Unbounded),
          Rep(Cls(Alpha), 2, Unbounded), Wb>>)

(***************************************************************************)
(* _stable_tag, src/app.py lines 11-15.                                    *)
(***************************************************************************)
HexDigits == "0123456789abcdef"

\* the digest of an unlisted text: a keyed rolling hash stands in for
\* HMAC-SHA256 (deterministic in key and text, n lowercase hex characters)
Printable ==
    " !\"#$%&'()*+,-./0123456789:;<=>?@ABCDEFGHIJKLMNOPQRSTUVWXYZ[\\]^_abcdefghijklmnopqrstuvwxyz{|}~"

Ord(c) == IF \E i \in 1..Len(Printable) : Ch(Printable, i) = c
          THEN 31 + (CHOOSE i \in 1..Len(Printable) : Ch(Printable, i) = c)
          ELSE 127

RECURSIVE Mix(_, _, _)
Mix(s, lo, hi) ==
    IF lo > hi THEN 0
    ELSE IF lo = hi THEN (Ord(Ch(s, lo)) * (lo * lo * 7 + lo * 13 + 1)) % 1048576
    ELSE LET mid == (lo + hi) \div 2
         IN  (Mix(s, lo, mid) + Mix(s, mid + 1, hi)) % 1048576

RECURSIVE ToHex(_, _)
ToHex(v, n) ==
    IF n = 0 THEN ""
    ELSE ToHex(v \div 16, n - 1) \o Ch(HexDigits, (v % 16) + 1)

StandInDigest(key, text, n) ==
    ToHex((Mix(key, 1, Len(key)) * 31 + Mix(text, 1, Len(text)) * 17 + Len(text)) % 16777216, n)

\* hmac.new(key, text, sha256).hexdigest() of the texts the bounded inputs
\* lead to, under each key of Environments: the values src/app.py computes
Digests ==
    "project-secret" :>
          ( "-j@b.co" :> "da6c00" @@ "023584" :> "1e9735" @@ "071469" :> "0679a8"
           @@ "1.2.3.4" :> "19c0b8" @@ "1.2.3.41" :> "3f4d1c" @@ "1.2.3.41.2.3.4j@b.co" :> "2b5e77"
           @@ "1.2.3.4123-45-6789c.com" :> "18e00a" @@ "1.2.3.4123-45-6789j@b.co" :> "4d93be" @@ "1.2.3.4123456c.com" :> "9c7b0b"
           @@ "1.2.3.4123456j@b.co" :> "815770" @@ "1.2.3.44111111111111111c.com" :> "c08787" @@ "1.2.3.44111111111111111j@b.co" :> "b80e56"
           @@ "1.2.3.4c.com" :> "2257f5" @@ "1.2.3.4c.comc.com" :> "2dd242" @@ "1.2.3.4c.comhttp" :> "933bc4"
           @@ "1.2.3.4c.comj@b.co" :> "8dfbd8" @@ "1.2.3.4j@b.co" :> "4cd3f1" @@ "1.2.3.4j@b.coc.com" :> "9e3a52"
           @@ "1.2.3.4j@b.cohttp" :> "6e5e81" @@ "1.2.3.4j@b.coj" :> "fab649" @@ "123-45-6789" :> "b87d0a"
           @@ "123-45-67891.2.3.4c.com" :> "c5c525" @@ "123-45-67891.2.3.4j@b.co" :> "c3f525" @@ "123-45-6789123-45" :> "6b3a76"
           @@ "123-45-6789123-45-6789j@b.co" :> "715596" @@ "123-45-6789123456" :> "ac95d3" @@ "123-45-67891234561" :> "81e429"
           @@ "123-45-6789123456123" :> "5fcf36" @@ "123-45-6789123456c.com" :> "712d3e" @@ "123-45-6789123456j@b.co" :> "2e63ad"
           @@ "123-45-67894111111111111111c.com" :> "cb1637" @@ "123-45-67894111111111111111j@b.co" :> "350d39" @@ "123-45-6789c.com" :> "f80f9a"
           @@ "123-45-6789c.comc.com" :> "5e08ff" @@ "123-45-6789c.comhttp" :> "96602b" @@ "123-45-6789c.comj@b.co" :> "b92bdb"
           @@ "123-45-6789j@b.co" :> "36164c" @@ "123-45-6789j@b.coc.com" :> "4f5fe5" @@ "123-45-6789j@b.cohttp" :> "a929cd"
           @@ "123-45-6789j@b.coj" :> "46d401" @@ "123456" :> "f43fcf" @@ "123456 1234567" :> "3b9206"
           @@ "123456 12345671" :> "171a3b" @@ "123456 1234567123" :> "a9615f" @@ "123456 1234567123456" :> "2519d3"
           @@ "1234561" :> "0f1450" @@ "1234561.2.3.4j@b.co" :> "9ea666" @@ "123456123" :> "1b6348"
           @@ "123456123-45-6789" :> "c3c9b9" @@ "123456123-45-67891" :> "764aa9" @@ "123456123-45-6789123" :> "5338d3"
           @@ "123456123-45-6789j@b.co" :> "57860d" @@ "123456123456" :> "09c014" @@ "123456123456 1234567" :> "ed217c"
           @@ "1234561234561" :> "331390" @@ "123456123456123" :> "50ca94" @@ "123456123456123456" :> "7071b6"
           @@ "123456123456c.com" :> "2c3111" @@ "123456123456j@b.co" :> "5a4527" @@ "1234564111111111111111c.com" :> "760aa7"
           @@ "1234564111111111111111j@b.co" :> "59907f" @@ "1234567" :> "4cacae" @@ "1234567 1234567" :> "3bd537"
           @@ "1234567 12345671" :> "218ce0" @@ "1234567 1234567123" :> "d11900" @@ "12345671" :> "6a821a"
           @@ "12345671.2.3.4j@b.co" :> "6fdf48" @@ "1234567123" :> "6794e0" @@ "1234567123-45-6789" :> "2665df"
           @@ "1234567123-45-67891" :> "9e2a59" @@ "1234567123-45-6789123" :> "04a8b5" @@ "1234567123-45-6789j@b.co" :> "dd9a49"
           @@ "1234567123456" :> "45f92e" @@ "12345671234561" :> "497041" @@ "1234567123456123" :> "b79b41"
           @@ "1234567123456123456" :> "def32c" @@ "1234567123456c.com" :> "680ba3" @@ "1234567123456j@b.co" :> "00f620"
           @@ "12345674111111111111111c.com" :> "851e94" @@ "12345674111111111111111j@b.co" :> "a69b86" @@ "1234567c.com" :> "72ecb8"
           @@ "1234567c.comc.com" :> "aaffa8" @@ "1234567c.comhttp" :> "fe1554" @@ "1234567c.comj@b.co" :> "bdd5fa"
           @@ "1234567j@b.co" :> "b6b94c" @@ "1234567j@b.coc.com" :> "26deb4" @@ "1234567j@b.cohttp" :> "59b384"
           @@ "1234567j@b.coj" :> "49c01a" @@ "123456c.com" :> "7b7439" @@ "123456c.comc.com" :> "2bd046"
           @@ "123456c.comhttp" :> "cd005a" @@ "123456c.comj@b.co" :> "9669d2" @@ "123456j@b.co" :> "8a162c"
           @@ "123456j@b.coc.com" :> "53393f" @@ "123456j@b.cohttp" :> "dc787a" @@ "123456j@b.coj" :> "ee05dc"
           @@ "154065" :> "76ee05" @@ "2.3.41.2" :> "6dc28e" @@ "2.3.4c.com" :> "bee534"
           @@ "225682" :> "11fafc" @@ "249037" :> "596827" @@ "314262" :> "1ec1c3"
           @@ "331390" :> "58a612" @@ "382239" :> "6c06fd" @@ "4 1234567 1234567" :> "c80ce8"
           @@ "4 1234567123-45" :> "96e661" @@ "4 1234567123456" :> "596d8f" @@ "4111111111111111" :> "1e7d1b"
           @@ "41111111111111111" :> "1552a9" @@ "41111111111111111.2.3.4j@b.co" :> "706a41" @@ "4111111111111111123" :> "cae1ea"
           @@ "4111111111111111123-45-6789j@b.co" :> "cd9ea3" @@ "4111111111111111123456c.com" :> "023584" @@ "4111111111111111123456j@b.co" :> "0622b6"
           @@ "41111111111111114111111111111111c.com" :> "fd76c5" @@ "41111111111111114111111111111111j@b.co" :> "da1082" @@ "4111111111111111c.com" :> "d7e66e"
           @@ "4111111111111111c.comc.com" :> "e09c6f" @@ "4111111111111111c.comhttp" :> "1a1849" @@ "4111111111111111c.comj@b.co" :> "23722b"
           @@ "4111111111111111j@b.co" :> "56e6eb" @@ "4111111111111111j@b.coc.com" :> "6c371c" @@ "4111111111111111j@b.cohttp" :> "071469"
           @@ "4111111111111111j@b.coj" :> "c76c08" @@ "4123-45-6789 1234567" :> "7b378b" @@ "4123-45-6789123" :> "a3be7c"
           @@ "4123-45-6789123456" :> "f14f22" @@ "4123456" :> "314262" @@ "4123456 1234567" :> "028b61"
           @@ "41234561" :> "77a562" @@ "4123456123-45-6789" :> "737d93" @@ "4123456123456" :> "66b621"
           @@ "44111111111111111" :> "92a565" @@ "441111111111111111" :> "225682" @@ "45-6789 1234567" :> "c6f7f7"
           @@ "45-6789123-45-6789" :> "37333e" @@ "45-6789123456123456" :> "630401" @@ "45-6789c.com" :> "798b5b"
           @@ "497041" :> "6fd7f8" @@ "596827" :> "a3b549" @@ "630401" :> "fa4d73"
           @@ "6789123-45-6789" :> "ce1f37" @@ "6789123456" :> "3a0f56" @@ "6789c.com" :> "807a2f"
           @@ "715596" :> "12b499" @@ "775872" :> "cf51c2" @@ "815770" :> "de9fa2"
           @@ "904914" :> "bf9a43" @@ "a.com" :> "4d42b3" @@ "b.co" :> "7e48dd"
           @@ "b.coc.com" :> "009a5b" @@ "b.cohttp" :> "9e3782" @@ "b.coj@b.co" :> "249037"
           @@ "c.com" :> "775872" @@ "c.com1.2.3.4c.com" :> "5efe9f" @@ "c.com1.2.3.4j@b.co" :> "59ea5a"
           @@ "c.com123-45-6789c.com" :> "23dc5d" @@ "c.com123-45-6789j@b.co" :> "e0a14f" @@ "c.com123456c.com" :> "4cd8cb"
           @@ "c.com123456j@b.co" :> "cbed35" @@ "c.com4111111111111111c.com" :> "1c0d33" @@ "c.com4111111111111111j@b.co" :> "38eb21"
           @@ "c.comc" :> "268ec2" @@ "c.comc.com" :> "cbda5e" @@ "c.comc.comc.com" :> "dee4b9"
           @@ "c.comc.comhttp" :> "ce793d" @@ "c.comc.comj@b.co" :> "63bbf2" @@ "c.comhttp" :> "227e3f"
           @@ "c.comj@b.co" :> "2326cc" @@ "c.comj@b.coc.com" :> "bdff3f" @@ "c.comj@b.cohttp" :> "7a05ca"
           @@ "c.comj@b.coj" :> "5a8b92" @@ "http://a.com/?u" :> "c695c3" @@ "http://a.com/?u=1.2.3.4123-45-6789" :> "779e2d"
           @@ "http://a.com/?u=1.2.3.4c.com" :> "b1d30a" @@ "http://a.com/?u=1.2.3.4http://a.com/?u" :> "1a653c" @@ "http://a.com/?u=1.2.3.[ACCT:314262" :> "7fd874"
           @@ "http://a.com/?u=1.2.3.[CARD:92a565" :> "bec241" @@ "http://a.com/?u=123-45-67891.2.3.4" :> "de510b" @@ "http://a.com/?u=123-45-67894111111111111111" :> "68d3ec"
           @@ "http://a.com/?u=123-45-6789c.com" :> "c16705" @@ "http://a.com/?u=123-45-6789http://a.com/?u" :> "be98ce" @@ "http://a.com/?u=1234564111111111111111" :> "9272e9"
           @@ "http://a.com/?u=123456c.com" :> "5a7fc0" @@ "http://a.com/?u=123456http://a.com/?u" :> "e5f4ef" @@ "http://a.com/?u=4111111111111111123456" :> "c2285d"
           @@ "http://a.com/?u=41111111111111114111111111111111" :> "b247e6" @@ "http://a.com/?u=4111111111111111c.com" :> "c37981" @@ "http://a.com/?u=4111111111111111http://a.com/?u" :> "d0c8e7"
           @@ "http://a.com/?u=[ACCT:09c014" :> "1a1d66" @@ "http://a.com/?u=[ACCT:0f1450].2.3.4" :> "97cb04" @@ "http://a.com/?u=[ACCT:f43fcf" :> "786b86"
           @@ "http://a.com/?u=[CARD:1552a9].2.3.4" :> "50e198" @@ "http://a.com/?u=[CARD:1e7d1b" :> "a1eb08" @@ "http://a.com/?u=[CARD:3b9206" :> "0c2a81"
           @@ "http://a.com/?u=[CARD:6b3a76]-6789" :> "a83913" @@ "http://a.com/?u=[CARD:ac95d3" :> "a0fe53" @@ "http://a.com/?u=[CARD:c3c9b9" :> "9c901a"
           @@ "http://a.com/?u=[CARD:cae1ea]-45-6789" :> "a0d743" @@ "http://a.com/?u=[EMAIL:2326cc" :> "87a0bf" @@ "http://a.com/?u=[EMAIL:36164c" :> "fcb91b"
           @@ "http://a.com/?u=[EMAIL:4cd3f1" :> "ba33f2" @@ "http://a.com/?u=[EMAIL:56d6b1]://a.com/?u" :> "1c8318" @@ "http://a.com/?u=[EMAIL:56e6eb" :> "3d3823"
           @@ "http://a.com/?u=[EMAIL:624a0d]@b.co" :> "ae6e3f" @@ "http://a.com/?u=[EMAIL:8a162c" :> "9aca74" @@ "http://a.com/?u=[EMAIL:9a48c8" :> "a142f7"
           @@ "http://a.com/?u=[EMAIL:[ACCT:76ee05" :> "d94b49" @@ "http://a.com/?u=[EMAIL:[ACCT:76ee05]][ACCT:f43fcf" :> "2a4209" @@ "http://a.com/?u=[EMAIL:[ACCT:76ee05]][CARD:1e7d1b" :> "49eca2"
           @@ "http://a.com/?u=[EMAIL:[ACCT:76ee05]][IP:19c0b8" :> "b213ee" @@ "http://a.com/?u=[EMAIL:[ACCT:76ee05]][SSN:b87d0a" :> "1d5660" @@ "http://a.com/?u=[IP:19c0b8" :> "6a2def"
           @@ "http://a.com/?u=[IP:3f4d1c].2.3.4" :> "382239" @@ "http://a.com/?u=[SSN:b87d0a" :> "8abcca" @@ "http://a.com/?u=c.com" :> "23212a"
           @@ "http://a.com/?u=c.com1.2.3.4" :> "a5fc18" @@ "http://a.com/?u=c.com123-45-6789" :> "ca3fd0" @@ "http://a.com/?u=c.com123456" :> "ff3604"
           @@ "http://a.com/?u=c.com4111111111111111" :> "0c2341" @@ "http://a.com/?u=c.comc.com" :> "b511ca" @@ "http://a.com/?u=c.comhttp://a.com/?u" :> "0d0c41"
           @@ "http://a.com/?u=http://a.com/?u" :> "4b61ac" @@ "http://a.com/?u=http://a.com/?u=[ACCT:f43fcf" :> "a65f3c" @@ "http://a.com/?u=http://a.com/?u=[CARD:1e7d1b" :> "904914"
           @@ "http://a.com/?u=http://a.com/?u=[EMAIL:[ACCT:76ee05" :> "aa07db" @@ "http://a.com/?u=http://a.com/?u=[IP:19c0b8" :> "5d04b0" @@ "http://a.com/?u=http://a.com/?u=[SSN:b87d0a" :> "a337ea"
           @@ "http://a.com/?u=http://a.com/?u=c.com" :> "e1c13e" @@ "http://a.com/?u=http://a.com/?u=http://a.com/?u" :> "e5dc01" @@ "j@b.co" :> "154065"
           @@ "j@b.co1.2.3.4c.com" :> "dd539a" @@ "j@b.co123-45-6789c.com" :> "ff86df" @@ "j@b.co123456c.com" :> "10fe32"
           @@ "j@b.co4111111111111111c.com" :> "cc1a11" @@ "j@b.coc.com" :> "9a48c8" @@ "j@b.coc.comc.com" :> "22795b"
           @@ "j@b.coc.comhttp" :> "56afb5" @@ "j@b.coc.comj" :> "ea9fdd" @@ "j@b.cohttp" :> "56d6b1"
           @@ "j@b.coj" :> "624a0d" @@ "x1.2.3.4c.com" :> "83db71" @@ "x1.2.3.4j@b.co" :> "c1f959"
           @@ "x123-45-6789c.com" :> "e30331" @@ "x123-45-6789j@b.co" :> "436d26" @@ "x123456c.com" :> "86791a"
           @@ "x123456j@b.co" :> "332dda" @@ "x4111111111111111c.com" :> "0741d2" @@ "x4111111111111111j@b.co" :> "6ae48f"
           @@ "xc.com" :> "6525ff" @@ "xc.comc.com" :> "8f9e32" @@ "xc.comhttp" :> "59bdd4"
           @@ "xc.comj@b.co" :> "6c4874" @@ "xj@b.co" :> "9df5e4" @@ "xj@b.coc.com" :> "9bc2f0"
           @@ "xj@b.cohttp" :> "20601d" @@ "xj@b.coj" :> "39f233" )
    @@ "" :>
          ( "-j@b.co" :> "9d1564" @@ "067361" :> "f51e0e" @@ "1.2.3.4" :> "c424b2"
           @@ "1.2.3.41" :> "9a80f1" @@ "1.2.3.41.2.3.4j@b.co" :> "7185bb" @@ "1.2.3.4123-45-6789c.com" :> "baec4d"
           @@ "1.2.3.4123-45-6789j@b.co" :> "8e1d15" @@ "1.2.3.4123456c.com" :> "9c863e" @@ "1.2.3.4123456j@b.co" :> "562499"
           @@ "1.2.3.44111111111111111c.com" :> "2eb7ca" @@ "1.2.3.44111111111111111j@b.co" :> "56c7ad" @@ "1.2.3.4c.com" :> "0e9589"
           @@ "1.2.3.4c.comc.com" :> "1e4c35" @@ "1.2.3.4c.comhttp" :> "e09cf9" @@ "1.2.3.4c.comj@b.co" :> "6379f3"
           @@ "1.2.3.4j@b.co" :> "884d4c" @@ "1.2.3.4j@b.coc.com" :> "41c55e" @@ "1.2.3.4j@b.cohttp" :> "4507c6"
           @@ "1.2.3.4j@b.coj" :> "8692ec" @@ "123-45-6789" :> "2b85a1" @@ "123-45-67891.2.3.4c.com" :> "9c1358"
           @@ "123-45-67891.2.3.4j@b.co" :> "869d21" @@ "123-45-6789123-45" :> "5736ec" @@ "123-45-6789123-45-6789j@b.co" :> "203353"
           @@ "123-45-6789123456" :> "fbf157" @@ "123-45-67891234561" :> "387613" @@ "123-45-6789123456123" :> "a6ddf2"
           @@ "123-45-6789123456c.com" :> "0ab3b0" @@ "123-45-6789123456j@b.co" :> "a57af3" @@ "123-45-67894111111111111111c.com" :> "91af4b"
           @@ "123-45-67894111111111111111j@b.co" :> "f1553f" @@ "123-45-6789c.com" :> "aee9dc" @@ "123-45-6789c.comc.com" :> "e21aba"
           @@ "123-45-6789c.comhttp" :> "bb7922" @@ "123-45-6789c.comj@b.co" :> "7e93b9" @@ "123-45-6789j@b.co" :> "de9fce"
           @@ "123-45-6789j@b.coc.com" :> "f79e7f" @@ "123-45-6789j@b.cohttp" :> "cc5f66" @@ "123-45-6789j@b.coj" :> "5acb81"
           @@ "123456" :> "dbd978" @@ "123456 1234567" :> "9c9a65" @@ "123456 12345671" :> "1deb25"
           @@ "123456 1234567123" :> "7ce47e" @@ "123456 1234567123456" :> "76e22b" @@ "1234561" :> "9a5d59"
           @@ "1234561.2.3.4j@b.co" :> "5d6761" @@ "123456123" :> "642eca" @@ "123456123-45-6789" :> "ed8e61"
           @@ "123456123-45-67891" :> "2ded4b" @@ "123456123-45-6789123" :> "0e5294" @@ "123456123-45-6789j@b.co" :> "da7393"
           @@ "123456123456" :> "a5f151" @@ "123456123456 1234567" :> "4b1edb" @@ "1234561234561" :> "7893bf"
           @@ "123456123456123" :> "6f5b66" @@ "123456123456123456" :> "8b2426" @@ "123456123456c.com" :> "e9e05c"
           @@ "123456123456j@b.co" :> "93bcf9" @@ "1234564111111111111111c.com" :> "115c7e" @@ "1234564111111111111111j@b.co" :> "cc8f52"
           @@ "1234567" :> "bf34e0" @@ "1234567 1234567" :> "da7b6b" @@ "1234567 12345671" :> "7af63a"
           @@ "1234567 1234567123" :> "3bdf24" @@ "12345671" :> "917322" @@ "12345671.2.3.4j@b.co" :> "784227"
           @@ "1234567123" :> "5d4e4e" @@ "1234567123-45-6789" :> "2a0dac" @@ "1234567123-45-67891" :> "ab6e29"
           @@ "1234567123-45-6789123" :> "95351a" @@ "1234567123-45-6789j@b.co" :> "fd933c" @@ "1234567123456" :> "5ec5a7"
           @@ "12345671234561" :> "48b5ac" @@ "1234567123456123" :> "0828bf" @@ "1234567123456123456" :> "965581"
           @@ "1234567123456c.com" :> "e114e0" @@ "1234567123456j@b.co" :> "31b07d" @@ "12345674111111111111111c.com" :> "f52f10"
           @@ "12345674111111111111111j@b.co" :> "491c11" @@ "1234567c.com" :> "86c887" @@ "1234567c.comc.com" :> "fb3761"
           @@ "1234567c.comhttp" :> "dd5796" @@ "1234567c.comj@b.co" :> "df2e00" @@ "1234567j@b.co" :> "0bcfdc"
           @@ "1234567j@b.coc.com" :> "fb62cf" @@ "1234567j@b.cohttp" :> "6c2e80" @@ "1234567j@b.coj" :> "a0bf98"
           @@ "123456c.com" :> "d9ccc7" @@ "123456c.comc.com" :> "381118" @@ "123456c.comhttp" :> "b193e6"
           @@ "123456c.comj@b.co" :> "0cea8b" @@ "123456j@b.co" :> "8ea1b6" @@ "123456j@b.coc.com" :> "9f5379"
           @@ "123456j@b.cohttp" :> "847ea5" @@ "123456j@b.coj" :> "c668ef" @@ "188951" :> "156be7"
           @@ "191232" :> "a7e14d" @@ "2.3.41.2" :> "c7536f" @@ "2.3.4c.com" :> "b1a075"
           @@ "203353" :> "cff76c" @@ "258348" :> "ee452d" @@ "275407" :> "e00eef"
           @@ "291652" :> "e53014" @@ "356945" :> "d99241" @@ "381118" :> "da9dfe"
           @@ "387613" :> "81dcad" @@ "4 1234567 1234567" :> "23779c" @@ "4 1234567123-45" :> "b89985"
           @@ "4 1234567123456" :> "62cd60" @@ "4111111111111111" :> "3acce0" @@ "41111111111111111" :> "7aaa83"
           @@ "41111111111111111.2.3.4j@b.co" :> "53106b" @@ "4111111111111111123" :> "1c08a0" @@ "4111111111111111123-45-6789j@b.co" :> "0dd3f3"
           @@ "4111111111111111123456c.com" :> "cb878f" @@ "4111111111111111123456j@b.co" :> "d1f69e" @@ "41111111111111114111111111111111c.com" :> "bd0142"
           @@ "41111111111111114111111111111111j@b.co" :> "40b63c" @@ "4111111111111111c.com" :> "275407" @@ "4111111111111111c.comc.com" :> "09befa"
           @@ "4111111111111111c.comhttp" :> "a4088f" @@ "4111111111111111c.comj@b.co" :> "5d9986" @@ "4111111111111111j@b.co" :> "506337"
           @@ "4111111111111111j@b.coc.com" :> "85aec7" @@ "4111111111111111j@b.cohttp" :> "2f4fda" @@ "4111111111111111j@b.coj" :> "29c187"
           @@ "4123-45-6789 1234567" :> "cf49fc" @@ "4123-45-6789123" :> "a5bd69" @@ "4123-45-6789123456" :> "f85ce3"
           @@ "4123456" :> "6fcc9e" @@ "4123456 1234567" :> "4a5f02" @@ "41234561" :> "fbe413"
           @@ "4123456123-45-6789" :> "1aa686" @@ "4123456123456" :> "2cccc4" @@ "44111111111111111" :> "02049f"
           @@ "441111111111111111" :> "9dcdc6" @@ "45-6789 1234567" :> "058e75" @@ "45-6789123-45-6789" :> "a1d71d"
           @@ "45-6789123456123456" :> "71f0e7" @@ "45-6789c.com" :> "330cb3" @@ "476018" :> "2a749c"
           @@ "506337" :> "191232" @@ "562499" :> "5dd2dd" @@ "614951" :> "bcc0a1"
           @@ "6789123-45-6789" :> "d2f848" @@ "6789123456" :> "a054f5" @@ "6789c.com" :> "1857a2"
           @@ "779451" :> "506f6b" @@ "784227" :> "ebed74" @@ "797062" :> "7814fc"
           @@ "917322" :> "b5d9bf" @@ "964811" :> "30700f" @@ "965581" :> "a9956d"
           @@ "a.com" :> "427e68" @@ "b.co" :> "5b12f7" @@ "b.coc.com" :> "5e7d36"
           @@ "b.cohttp" :> "800e25" @@ "b.coj@b.co" :> "5ae04a" @@ "c.com" :> "797062"
           @@ "c.com1.2.3.4c.com" :> "0e88f8" @@ "c.com1.2.3.4j@b.co" :> "614951" @@ "c.com123-45-6789c.com" :> "fde9f9"
           @@ "c.com123-45-6789j@b.co" :> "e9e841" @@ "c.com123456c.com" :> "d43935" @@ "c.com123456j@b.co" :> "2df1ac"
           @@ "c.com4111111111111111c.com" :> "498f66" @@ "c.com4111111111111111j@b.co" :> "3f6298" @@ "c.comc" :> "476018"
           @@ "c.comc.com" :> "aae412" @@ "c.comc.comc.com" :> "b2133b" @@ "c.comc.comhttp" :> "a9e525"
           @@ "c.comc.comj@b.co" :> "414cae" @@ "c.comhttp" :> "c621d4" @@ "c.comj@b.co" :> "4488ce"
           @@ "c.comj@b.coc.com" :> "964811" @@ "c.comj@b.cohttp" :> "c2b834" @@ "c.comj@b.coj" :> "5e283e"
           @@ "http://a.com/?u" :> "d6b618" @@ "http://a.com/?u=1.2.3.4123-45-6789" :> "b428ee" @@ "http://a.com/?u=1.2.3.4c.com" :> "9084b3"
           @@ "http://a.com/?u=1.2.3.4http://a.com/?u" :> "bfa282" @@ "http://a.com/?u=1.2.3.[ACCT:6fcc9e" :> "0cbe02" @@ "http://a.com/?u=1.2.3.[CARD:02049f" :> "067361"
           @@ "http://a.com/?u=123-45-67891.2.3.4" :> "d14273" @@ "http://a.com/?u=123-45-67894111111111111111" :> "c71400" @@ "http://a.com/?u=123-45-6789c.com" :> "fc5a07"
           @@ "http://a.com/?u=123-45-6789http://a.com/?u" :> "45cfd2" @@ "http://a.com/?u=1234564111111111111111" :> "53e8d7" @@ "http://a.com/?u=123456c.com" :> "8169ab"
           @@ "http://a.com/?u=123456http://a.com/?u" :> "7d39cd" @@ "http://a.com/?u=4111111111111111123456" :> "10a099" @@ "http://a.com/?u=41111111111111114111111111111111" :> "eb984f"
           @@ "http://a.com/?u=4111111111111111c.com" :> "64e5fd" @@ "http://a.com/?u=4111111111111111http://a.com/?u" :> "7cb93e" @@ "http://a.com/?u=[ACCT:9a5d59].2.3.4" :> "796cfd"
           @@ "http://a.com/?u=[ACCT:a5f151" :> "4f6e15" @@ "http://a.com/?u=[ACCT:dbd978" :> "03f16c" @@ "http://a.com/?u=[CARD:1c08a0]-45-6789" :> "9b389f"
           @@ "http://a.com/?u=[CARD:3acce0" :> "c35dd5" @@ "http://a.com/?u=[CARD:5736ec]-6789" :> "922b41" @@ "http://a.com/?u=[CARD:7aaa83].2.3.4" :> "f162f1"
           @@ "http://a.com/?u=[CARD:9c9a65" :> "e82ab7" @@ "http://a.com/?u=[CARD:ed8e61" :> "cb760c" @@ "http://a.com/?u=[CARD:fbf157" :> "1d6fa2"
           @@ "http://a.com/?u=[EMAIL:281bb3" :> "291652" @@ "http://a.com/?u=[EMAIL:281bb3][ACCT:dbd978" :> "40ab89" @@ "http://a.com/?u=[EMAIL:281bb3][CARD:3acce0" :> "ae4162"
           @@ "http://a.com/?u=[EMAIL:281bb3][IP:c424b2" :> "dd6291" @@ "http://a.com/?u=[EMAIL:281bb3][SSN:2b85a1" :> "f42cea" @@ "http://a.com/?u=[EMAIL:4488ce" :> "8e8bb4"
           @@ "http://a.com/?u=[EMAIL:884d4c" :> "b644da" @@ "http://a.com/?u=[EMAIL:8ea1b6" :> "17b88d" @@ "http://a.com/?u=[EMAIL:960e3b]://a.com/?u" :> "38941a"
           @@ "http://a.com/?u=[EMAIL:[ACCT:191232" :> "4ea017" @@ "http://a.com/?u=[EMAIL:[ACCT:ee452d]]@b.co" :> "160c07" @@ "http://a.com/?u=[EMAIL:de9fce" :> "24f91d"
           @@ "http://a.com/?u=[EMAIL:ee3bff" :> "8120d8" @@ "http://a.com/?u=[IP:9a80f1].2.3.4" :> "abd1dd" @@ "http://a.com/?u=[IP:c424b2" :> "b4f37e"
           @@ "http://a.com/?u=[SSN:2b85a1" :> "51d7bf" @@ "http://a.com/?u=c.com" :> "9a581a" @@ "http://a.com/?u=c.com1.2.3.4" :> "0d1c8c"
           @@ "http://a.com/?u=c.com123-45-6789" :> "ff0d4c" @@ "http://a.com/?u=c.com123456" :> "e6dc79" @@ "http://a.com/?u=c.com4111111111111111" :> "f883ae"
           @@ "http://a.com/?u=c.comc.com" :> "a5b34b" @@ "http://a.com/?u=c.comhttp://a.com/?u" :> "dd2cce" @@ "http://a.com/?u=http://a.com/?u" :> "e8d110"
           @@ "http://a.com/?u=http://a.com/?u=[ACCT:dbd978" :> "6b280a" @@ "http://a.com/?u=http://a.com/?u=[CARD:3acce0" :> "7043df" @@ "http://a.com/?u=http://a.com/?u=[EMAIL:281bb3" :> "21b17b"
           @@ "http://a.com/?u=http://a.com/?u=[IP:c424b2" :> "28eefd" @@ "http://a.com/?u=http://a.com/?u=[SSN:2b85a1" :> "8e9f52" @@ "http://a.com/?u=http://a.com/?u=c.com" :> "79ca65"
           @@ "http://a.com/?u=http://a.com/?u=http://a.com/?u" :> "80c8bb" @@ "j@b.co" :> "281bb3" @@ "j@b.co1.2.3.4c.com" :> "188951"
           @@ "j@b.co123-45-6789c.com" :> "1309d5" @@ "j@b.co123456c.com" :> "d5bbec" @@ "j@b.co4111111111111111c.com" :> "779451"
           @@ "j@b.coc.com" :> "ee3bff" @@ "j@b.coc.comc.com" :> "b30e16" @@ "j@b.coc.comhttp" :> "81fe86"
           @@ "j@b.coc.comj" :> "33baa8" @@ "j@b.cohttp" :> "960e3b" @@ "j@b.coj" :> "258348"
           @@ "x1.2.3.4c.com" :> "adf627" @@ "x1.2.3.4j@b.co" :> "821ee7" @@ "x123-45-6789c.com" :> "61ef60"
           @@ "x123-45-6789j@b.co" :> "5b5341" @@ "x123456c.com" :> "e115ee" @@ "x123456j@b.co" :> "339a23"
           @@ "x4111111111111111c.com" :> "646d6f" @@ "x4111111111111111j@b.co" :> "b34699" @@ "xc.com" :> "b8ffed"
           @@ "xc.comc.com" :> "0d3fd8" @@ "xc.comhttp" :> "d62d8a" @@ "xc.comj@b.co" :> "e1a68c"
           @@ "xj@b.co" :> "8636dc" @@ "xj@b.coc.com" :> "467b55" @@ "xj@b.cohttp" :> "5aac4d"
           @@ "xj@b.coj" :> "356945" )
    @@ "k3y" :>
          ( "-j@b.co" :> "14a726" @@ "009656" :> "87de14" @@ "075936" :> "a125dd"
           @@ "1.2.3.4" :> "6a343b" @@ "1.2.3.41" :> "22791a" @@ "1.2.3.41.2.3.4j@b.co" :> "7928da"
           @@ "1.2.3.4123-45-6789c.com" :> "3d6f2d" @@ "1.2.3.4123-45-6789j@b.co" :> "73d46f" @@ "1.2.3.4123456c.com" :> "c2e9b1"
           @@ "1.2.3.4123456j@b.co" :> "22f086" @@ "1.2.3.44111111111111111c.com" :> "bee151" @@ "1.2.3.44111111111111111j@b.co" :> "b8f781"
           @@ "1.2.3.4c.com" :> "08715c" @@ "1.2.3.4c.comc.com" :> "a03269" @@ "1.2.3.4c.comhttp" :> "8f7bc1"
           @@ "1.2.3.4c.comj@b.co" :> "caabec" @@ "1.2.3.4j@b.co" :> "97914a" @@ "1.2.3.4j@b.coc.com" :> "e21777"
           @@ "1.2.3.4j@b.cohttp" :> "9931d0" @@ "1.2.3.4j@b.coj" :> "075936" @@ "123-45-6789" :> "b8150d"
           @@ "123-45-67891.2.3.4c.com" :> "f1af0f" @@ "123-45-67891.2.3.4j@b.co" :> "bc8a3e" @@ "123-45-6789123-45" :> "c9b790"
           @@ "123-45-6789123-45-6789j@b.co" :> "d10fb8" @@ "123-45-6789123456" :> "bd35cd" @@ "123-45-67891234561" :> "2204a4"
           @@ "123-45-6789123456123" :> "62276b" @@ "123-45-6789123456c.com" :> "7767bd" @@ "123-45-6789123456j@b.co" :> "818d4e"
           @@ "123-45-67894111111111111111c.com" :> "a479af" @@ "123-45-67894111111111111111j@b.co" :> "f4d5eb" @@ "123-45-6789c.com" :> "a8717e"
           @@ "123-45-6789c.comc.com" :> "562147" @@ "123-45-6789c.comhttp" :> "365749" @@ "123-45-6789c.comj@b.co" :> "64a9cf"
           @@ "123-45-6789j@b.co" :> "9af87a" @@ "123-45-6789j@b.coc.com" :> "523e8b" @@ "123-45-6789j@b.cohttp" :> "1bec93"
           @@ "123-45-6789j@b.coj" :> "9fd2a8" @@ "123456" :> "169e75" @@ "123456 1234567" :> "ccb989"
           @@ "123456 12345671" :> "e78a99" @@ "123456 1234567123" :> "39f522" @@ "123456 1234567123456" :> "10d0b1"
           @@ "1234561" :> "67aa68" @@ "1234561.2.3.4j@b.co" :> "f13b47" @@ "123456123" :> "b343d5"
           @@ "123456123-45-6789" :> "b2b3e3" @@ "123456123-45-67891" :> "b7c881" @@ "123456123-45-6789123" :> "34df95"
           @@ "123456123-45-6789j@b.co" :> "5281b5" @@ "123456123456" :> "4f3650" @@ "123456123456 1234567" :> "709592"
           @@ "1234561234561" :> "125c29" @@ "123456123456123" :> "aee23b" @@ "123456123456123456" :> "25217c"
           @@ "123456123456c.com" :> "2cf829" @@ "123456123456j@b.co" :> "e6078b" @@ "1234564111111111111111c.com" :> "7aa222"
           @@ "1234564111111111111111j@b.co" :> "49611d" @@ "1234567" :> "12b237" @@ "1234567 1234567" :> "f06ac7"
           @@ "1234567 12345671" :> "13e4d7" @@ "1234567 1234567123" :> "cd15a4" @@ "12345671" :> "5a1427"
           @@ "12345671.2.3.4j@b.co" :> "2a9a9a" @@ "1234567123" :> "4a37a8" @@ "1234567123-45-6789" :> "b8cef8"
           @@ "1234567123-45-67891" :> "7e6da1" @@ "1234567123-45-6789123" :> "bdac31" @@ "1234567123-45-6789j@b.co" :> "55459f"
           @@ "1234567123456" :> "3ee6db" @@ "12345671234561" :> "a6d618" @@ "1234567123456123" :> "a7dc73"
           @@ "1234567123456123456" :> "c4ce90" @@ "1234567123456c.com" :> "c7335b" @@ "1234567123456j@b.co" :> "ccfba8"
           @@ "12345674111111111111111c.com" :> "a20b76" @@ "12345674111111111111111j@b.co" :> "45f52a" @@ "1234567c.com" :> "45b81e"
           @@ "1234567c.comc.com" :> "e0da6b" @@ "1234567c.comhttp" :> "cbb8b4" @@ "1234567c.comj@b.co" :> "57c972"
           @@ "1234567j@b.co" :> "e83f8b" @@ "1234567j@b.coc.com" :> "693b22" @@ "1234567j@b.cohttp" :> "cf4999"
           @@ "1234567j@b.coj" :> "5bec72" @@ "123456c.com" :> "ccfa2b" @@ "123456c.comc.com" :> "cdfb06"
           @@ "123456c.comhttp" :> "4db9aa" @@ "123456c.comj@b.co" :> "27301d" @@ "123456j@b.co" :> "da3ac4"
           @@ "123456j@b.coc.com" :> "daeaed" @@ "123456j@b.cohttp" :> "0c27c2" @@ "123456j@b.coj" :> "b58f71"
           @@ "2.3.41.2" :> "c936e7" @@ "2.3.4c.com" :> "2e8709" @@ "333989" :> "183a4f"
           @@ "365749" :> "738655" @@ "376200" :> "00b9b6" @@ "4 1234567 1234567" :> "c177d1"
           @@ "4 1234567123-45" :> "50c12a" @@ "4 1234567123456" :> "506efe" @@ "4111111111111111" :> "1647d6"
           @@ "41111111111111111" :> "54f2aa" @@ "41111111111111111.2.3.4j@b.co" :> "35f46e" @@ "4111111111111111123" :> "ef5366"
           @@ "4111111111111111123-45-6789j@b.co" :> "99cbad" @@ "4111111111111111123456c.com" :> "603c44" @@ "4111111111111111123456j@b.co" :> "7bd2b6"
           @@ "41111111111111114111111111111111c.com" :> "18b36b" @@ "41111111111111114111111111111111j@b.co" :> "576fe4" @@ "4111111111111111c.com" :> "f5d1d4"
           @@ "4111111111111111c.comc.com" :> "3fa341" @@ "4111111111111111c.comhttp" :> "78afa3" @@ "4111111111111111c.comj@b.co" :> "c51083"
           @@ "4111111111111111j@b.co" :> "8613b6" @@ "4111111111111111j@b.coc.com" :> "2ae1a5" @@ "4111111111111111j@b.cohttp" :> "27eeb4"
           @@ "4111111111111111j@b.coj" :> "d6f94c" @@ "4123-45-6789 1234567" :> "abdc75" @@ "4123-45-6789123" :> "b159a6"
           @@ "4123-45-6789123456" :> "83c682" @@ "4123456" :> "aa8b88" @@ "4123456 1234567" :> "9b9eb5"
           @@ "41234561" :> "7b4bb1" @@ "4123456123-45-6789" :> "ef906e" @@ "4123456123456" :> "09311e"
           @@ "44111111111111111" :> "6b4948" @@ "441111111111111111" :> "bd8f85" @@ "45-6789 1234567" :> "64dcec"
           @@ "45-6789123-45-6789" :> "1eec7b" @@ "45-6789123456123456" :> "8bc77f" @@ "45-6789c.com" :> "a5fdf6"
           @@ "490193" :> "e3cdec" @@ "527044" :> "52bc3b" @@ "562147" :> "4c11d3"
           @@ "6789123-45-6789" :> "38f370" @@ "6789123456" :> "676a42" @@ "6789c.com" :> "1924f9"
           @@ "709592" :> "60eae3" @@ "717678" :> "cbb6d2" @@ "738655" :> "de2706"
           @@ "a.com" :> "cbdb90" @@ "b.co" :> "c30e8f" @@ "b.coc.com" :> "717678"
           @@ "b.cohttp" :> "d85c6f" @@ "b.coj@b.co" :> "f030ed" @@ "c.com" :> "640dd7"
           @@ "c.com1.2.3.4c.com" :> "de9507" @@ "c.com1.2.3.4j@b.co" :> "0c423e" @@ "c.com123-45-6789c.com" :> "d6f93c"
           @@ "c.com123-45-6789j@b.co" :> "449c28" @@ "c.com123456c.com" :> "f64dd9" @@ "c.com123456j@b.co" :> "5a9af8"
           @@ "c.com4111111111111111c.com" :> "3e2d4e" @@ "c.com4111111111111111j@b.co" :> "d4f661" @@ "c.comc" :> "79893f"
           @@ "c.comc.com" :> "c0a0f2" @@ "c.comc.comc.com" :> "b00960" @@ "c.comc.comhttp" :> "9a2fe7"
           @@ "c.comc.comj@b.co" :> "527044" @@ "c.comhttp" :> "c1c56f" @@ "c.comj@b.co" :> "2ed82c"
           @@ "c.comj@b.coc.com" :> "a1f359" @@ "c.comj@b.cohttp" :> "fa0cb4" @@ "c.comj@b.coj" :> "e9120e"
           @@ "http://a.com/?u" :> "528dd3" @@ "http://a.com/?u=1.2.3.4123-45-6789" :> "790b06" @@ "http://a.com/?u=1.2.3.4c.com" :> "a460ef"
           @@ "http://a.com/?u=1.2.3.4http://a.com/?u" :> "eef557" @@ "http://a.com/?u=1.2.3.[ACCT:aa8b88" :> "1d5a26" @@ "http://a.com/?u=1.2.3.[CARD:6b4948" :> "7f6afb"
           @@ "http://a.com/?u=123-45-67891.2.3.4" :> "e50bdf" @@ "http://a.com/?u=123-45-67894111111111111111" :> "66c910" @@ "http://a.com/?u=123-45-6789c.com" :> "64f98f"
           @@ "http://a.com/?u=123-45-6789http://a.com/?u" :> "eb93ff" @@ "http://a.com/?u=1234564111111111111111" :> "ea22f5" @@ "http://a.com/?u=123456c.com" :> "381f98"
           @@ "http://a.com/?u=123456http://a.com/?u" :> "5a7f95" @@ "http://a.com/?u=4111111111111111123456" :> "bb10d6" @@ "http://a.com/?u=41111111111111114111111111111111" :> "5a7302"
           @@ "http://a.com/?u=4111111111111111c.com" :> "df3a02" @@ "http://a.com/?u=4111111111111111http://a.com/?u" :> "48f6e1" @@ "http://a.com/?u=[ACCT:169e75" :> "31ff0a"
           @@ "http://a.com/?u=[ACCT:4f3650" :> "8ef437" @@ "http://a.com/?u=[ACCT:67aa68].2.3.4" :> "a47210" @@ "http://a.com/?u=[CARD:1647d6" :> "488fa7"
           @@ "http://a.com/?u=[CARD:54f2aa].2.3.4" :> "dbc538" @@ "http://a.com/?u=[CARD:b2b3e3" :> "490193" @@ "http://a.com/?u=[CARD:bd35cd" :> "6bfae7"
           @@ "http://a.com/?u=[CARD:c9b790]-6789" :> "dfa337" @@ "http://a.com/?u=[CARD:ccb989" :> "1fa661" @@ "http://a.com/?u=[CARD:ef5366]-45-6789" :> "376200"
           @@ "http://a.com/?u=[EMAIL:162ee3" :> "1e0804" @@ "http://a.com/?u=[EMAIL:2ed82c" :> "07c672" @@ "http://a.com/?u=[EMAIL:7eebf6]@b.co" :> "0744b3"
           @@ "http://a.com/?u=[EMAIL:8613b6" :> "8bb14d" @@ "http://a.com/?u=[EMAIL:97914a" :> "3bf852" @@ "http://a.com/?u=[EMAIL:9af87a" :> "7cf297"
           @@ "http://a.com/?u=[EMAIL:da3ac4" :> "543fd4" @@ "http://a.com/?u=[EMAIL:e7a7d4" :> "c9eac7" @@ "http://a.com/?u=[EMAIL:e7a7d4][ACCT:169e75" :> "16338e"
           @@ "http://a.com/?u=[EMAIL:e7a7d4][CARD:1647d6" :> "4303b9" @@ "http://a.com/?u=[EMAIL:e7a7d4][IP:6a343b" :> "7cf9f1" @@ "http://a.com/?u=[EMAIL:e7a7d4][SSN:b8150d" :> "150d6b"
           @@ "http://a.com/?u=[EMAIL:faa060]://a.com/?u" :> "55ea70" @@ "http://a.com/?u=[IP:22791a].2.3.4" :> "2da5f3" @@ "http://a.com/?u=[IP:6a343b" :> "3e6ea8"
           @@ "http://a.com/?u=[SSN:b8150d" :> "60ff09" @@ "http://a.com/?u=c.com" :> "e9aeac" @@ "http://a.com/?u=c.com1.2.3.4" :> "584f41"
           @@ "http://a.com/?u=c.com123-45-6789" :> "2b7f0d" @@ "http://a.com/?u=c.com123456" :> "1b0766" @@ "http://a.com/?u=c.com4111111111111111" :> "20ce41"
           @@ "http://a.com/?u=c.comc.com" :> "d32f3c" @@ "http://a.com/?u=c.comhttp://a.com/?u" :> "12760b" @@ "http://a.com/?u=http://a.com/?u" :> "70c365"
           @@ "http://a.com/?u=http://a.com/?u=[ACCT:169e75" :> "4dc714" @@ "http://a.com/?u=http://a.com/?u=[CARD:1647d6" :> "01bcd0" @@ "http://a.com/?u=http://a.com/?u=[EMAIL:e7a7d4" :> "b72fd9"
           @@ "http://a.com/?u=http://a.com/?u=[IP:6a343b" :> "475af3" @@ "http://a.com/?u=http://a.com/?u=[SSN:b8150d" :> "10ff9c" @@ "http://a.com/?u=http://a.com/?u=c.com" :> "2b456f"
           @@ "http://a.com/?u=http://a.com/?u=http://a.com/?u" :> "f8ce29" @@ "j@b.co" :> "e7a7d4" @@ "j@b.co1.2.3.4c.com" :> "769e98"
           @@ "j@b.co123-45-6789c.com" :> "9030e5" @@ "j@b.co123456c.com" :> "734b08" @@ "j@b.co4111111111111111c.com" :> "fd676d"
           @@ "j@b.coc.com" :> "162ee3" @@ "j@b.coc.comc.com" :> "37f5f8" @@ "j@b.coc.comhttp" :> "589eaf"
           @@ "j@b.coc.comj" :> "db438a" @@ "j@b.cohttp" :> "faa060" @@ "j@b.coj" :> "7eebf6"
           @@ "x1.2.3.4c.com" :> "37f99c" @@ "x1.2.3.4j@b.co" :> "85213b" @@ "x123-45-6789c.com" :> "f26e64"
           @@ "x123-45-6789j@b.co" :> "5d0ae5" @@ "x123456c.com" :> "dbdad6" @@ "x123456j@b.co" :> "009656"
           @@ "x4111111111111111c.com" :> "c6e237" @@ "x4111111111111111j@b.co" :> "c2566f" @@ "xc.com" :> "ddcc8c"
           @@ "xc.comc.com" :> "333989" @@ "xc.comhttp" :> "d9b3c6" @@ "xc.comj@b.co" :> "c09db9"
           @@ "xj@b.co" :> "7c01c5" @@ "xj@b.coc.com" :> "4721a5" @@ "xj@b.cohttp" :> "dc1a45"
           @@ "xj@b.coj" :> "1d8533" )

\* hmac.new(key, text, sha256).hexdigest()[:n]
HexDigest(key, text, n) ==
    IF key \in DOMAIN Digests /\ text \in DOMAIN Digests[key] /\ n <= Len(Digests[key][text])
    THEN Slice(Digests[key][text], 1, n)
    ELSE StandInDigest(key, text, n)

DigestLen == 6

_stable_tag(key, kind, text) ==
    "[" \o kind \o ":" \o HexDigest(key, text, DigestLen) \o "]"

\* the patterns with ACCT applied before CARD
PatternsAcctFirst ==
    << [kind |-> "EMAIL",  re |-> _email_re,  lazy |-> FALSE],
       [kind |-> "SSN",    re |-> _ssn_re,    lazy |-> FALSE],
       [kind |-> "ACCT",   re |-> _acct_re,   lazy |-> FALSE],
       [kind |-> "CARD",   re |-> _card_re,   lazy |-> TRUE],
       [kind |-> "IP",     re |-> _ip_re,     lazy |-> FALSE],
       [kind |-> "URL",    re |-> _url_re,    lazy |-> FALSE],
       [kind |-> "DOMAIN", re |-> _domain_re, lazy |-> FALSE] >>

(***************************************************************************)
(* _scrub_str, src/app.py lines 25-33: the patterns in the order of the    *)
(* seven re.sub calls.                                                     *)
(***************************************************************************)
Patterns ==
    << [kind |-> "EMAIL",  re |-> _email_re,  lazy |-> FALSE],
       [kind |-> "SSN",    re |-> _ssn_re,    lazy |-> FALSE],
       [kind |-> "CARD",   re |-> _card_re,   lazy |-> TRUE],
       [kind |-> "ACCT",   re |-> _acct_re,   lazy |-> FALSE],
       [kind |-> "IP",     re |-> _ip_re,     lazy |-> FALSE],
       [kind |-> "URL",    re |-> _url_re,    lazy |-> FALSE],
       [kind |-> "DOMAIN", re |-> _domain_re, lazy |-> FALSE] >>

NPatterns == Len(Patterns)

\* s with the matches ms (of FindAll) replaced by their tags, from match k on;
\* `from` is the position after the previous match
RECURSIVE Splice(_, _, _, _, _, _)
Splice(key, kind, s, ms, k, from) ==
    IF k > Len(ms) THEN Slice(s, from, Len(s))
    ELSE Slice(s, from, ms[k].lo - 1)
           \o _stable_tag(key, kind, Slice(s, ms[k].lo, ms[k].hi - 1))
           \o Splice(key, kind, s, ms, k + 1, ms[k].hi)

\* pattern.sub(lambda m: _stable_tag(kind, m.group()), s)
Sub(key, p, s) == Splice(key, p.kind, s, FindAll(p, s), 1, 1)

RECURSIVE ScrubFrom(_, _, _)
ScrubFrom(key, k, s) ==
    IF k > NPatterns THEN s ELSE ScrubFrom(key, k + 1, Sub(key, Patterns[k], s))

_scrub_str(key, s) == ScrubFrom(key, 1, s)

(***************************************************************************)
(* Python values of the JSON data model: [t |-> tag, v |-> payload].       *)
(* A dict is the sequence of its items in insertion order, each            *)
(* [k |-> key, v |-> value]; a list is the sequence of its elements.       *)
(***************************************************************************)
None == [t |-> "null", v |-> "None"]
Bool(b) == [t |-> "bool", v |-> b]
Num(n) == [t |-> "num", v |-> n]
Str(x) == [t |-> "str", v |-> x]
List(xs) == [t |-> "list", v |-> xs]
Dict(items) == [t |-> "dict", v |-> items]
Item(k, x) == [k |-> k, v |-> x]

Keys(d) == [i \in 1..Len(d.v) |-> d.v[i].k]

RECURSIVE scrubTruthy(_, _)
\* scrub with the list comprehension written [scrub(x) for x in obj if x]:
\* elements that are None are dropped
scrubTruthy(key, obj) ==
    CASE obj.t = "null" -> None
      [] obj.t = "str" -> Str(_scrub_str(key, obj.v))
      [] obj.t \in {"num", "bool"} -> obj
      [] obj.t = "list" ->
            LET kept == SelectSeq(obj.v, LAMBDA x : x # None)
            IN  List([i \in 1..Len(kept) |-> scrubTruthy(key, kept[i])])
      [] obj.t = "dict" ->
            Dict([i \in 1..Len(obj.v) |-> Item(obj.v[i].k, scrubTruthy(key, obj.v[i].v))])
      [] OTHER -> obj

\* scrub, src/app.py lines 35-41
RECURSIVE scrub(_, _)
scrub(key, obj) ==
    CASE obj.t = "null" -> None
      [] obj.t = "str" -> Str(_scrub_str(key, obj.v))
      [] obj.t \in {"num", "bool"} -> obj
      [] obj.t = "list" -> List([i \in 1..Len(obj.v) |-> scrub(key, obj.v[i])])
      [] obj.t = "dict" ->
            Dict([i \in 1..Len(obj.v) |-> Item(obj.v[i].k, scrub(key, obj.v[i].v))])
      [] OTHER -> obj

\* src/app.py lines 43-46
ALLOWED_FIELDS ==
    {"case_id", "summary", "timeline", "indicators",
     "amount_usd", "detected_by", "actions_taken", "date"}

AllowedItem(e) == e.k \in ALLOWED_FIELDS

\* allowlist without its filter: every key is kept
allowlistAll(d) == d

\* allowlist, src/app.py lines 48-49
allowlist(d) == Dict(SelectSeq(d.v, AllowedItem))

(***************************************************************************)
(* json.dumps(obj, ensure_ascii=False) and json.loads(text).  The strings  *)
(* of the model hold no quote, backslash or control character, so a string *)
(* is written between quotes as it is; numbers are non-negative integers.  *)
(***************************************************************************)
RECURSIVE NumToStr(_)
NumToStr(n) ==
    IF n < 10 THEN Ch(HexDigits, n + 1)
    ELSE NumToStr(n \div 10) \o Ch(HexDigits, (n % 10) + 1)

RECURSIVE dumps(_)
RECURSIVE DumpItems(_, _)
DumpItems(obj, k) ==
    IF k > Len(obj.v) THEN ""
    ELSE (IF k > 1 THEN ", " ELSE "")
           \o (IF obj.t = "dict"
               THEN "\"" \o obj.v[k].k \o "\": " \o dumps(obj.v[k].v)
               ELSE dumps(obj.v[k]))
           \o DumpItems(obj, k + 1)

dumps(obj) ==
    CASE obj.t = "null" -> "null"
      [] obj.t = "bool" -> IF obj.v THEN "true" ELSE "false"
      [] obj.t = "num" -> NumToStr(obj.v)
      [] obj.t = "str" -> "\"" \o obj.v \o "\""
      [] obj.t = "list" -> "[" \o DumpItems(obj, 1) \o "]"
      [] obj.t = "dict" -> "{" \o DumpItems(obj, 1) \o "}"

\* the result of a parse: the value and the position after it, or a failure
Parsed(x, i) == [ok |-> TRUE, val |-> x, pos |-> i]
ParseError == [ok |-> FALSE, val |-> None, pos |-> 0]

SkipWs(s, i) == CHOOSE j \in i..(Len(s) + 1) :
                    /\ Ch(s, j) \notin SpaceChar
                    /\ \A m \in i..(j - 1) : Ch(s, m) \in SpaceChar

IsAt(s, i, word) == Slice(s, i, i + Len(word) - 1) = word

DigitRun(s, i) == RunLen(Cls(Digit), s, i)

RECURSIVE StrToNum(_)
StrToNum(x) ==
    IF Len(x) = 0 THEN 0
    ELSE 10 * StrToNum(Slice(x, 1, Len(x) - 1))
           + (CHOOSE d \in 0..9 : Ch(HexDigits, d + 1) = Ch(x, Len(x)))

\* the position of the quote closing the string that opens at i, 0 for none
CloseQuote(s, i) ==
    IF \E j \in (i + 1)..Len(s) : Ch(s, j) = "\""
    THEN CHOOSE j \in (i + 1)..Len(s) :
             /\ Ch(s, j) = "\""
             /\ \A m \in (i + 1)..(j - 1) : Ch(s, m) # "\""
    ELSE 0

\* d[k] = x on the item sequence of a dict: a repeated key keeps its place
\* and takes the later value
PutItem(items, k, x) ==
    IF \E i \in 1..Len(items) : items[i].k = k
    THEN [i \in 1..Len(items) |-> IF items[i].k = k THEN Item(k, x) ELSE items[i]]
    ELSE Append(items, Item(k, x))

RECURSIVE ParseValue(_, _)
RECURSIVE ParseElements(_, _, _)
RECURSIVE ParseMembers(_, _, _)

\* s[i] starts the next element of an array whose earlier elements are xs
ParseElements(s, i, xs) ==
    LET e == ParseValue(s, i)
        j == SkipWs(s, e.pos)
    IN  IF ~e.ok THEN ParseError
        ELSE IF Ch(s, j) = "]" THEN Parsed(List(Append(xs, e.val)), j + 1)
        ELSE IF Ch(s, j) = "," THEN ParseElements(s, SkipWs(s, j + 1), Append(xs, e.val))
        ELSE ParseError

\* s[i] starts the next "key": value of an object whose earlier items are items
ParseMembers(s, i, items) ==
    LET q == IF Ch(s, i) = "\"" THEN CloseQuote(s, i) ELSE 0
        c == SkipWs(s, q + 1)
        e == ParseValue(s, SkipWs(s, c + 1))
        j == SkipWs(s, e.pos)
        more == PutItem(items, Slice(s, i + 1, q - 1), e.val)
    IN  IF q = 0 \/ Ch(s, c) # ":" THEN ParseError
        ELSE IF ~e.ok THEN ParseError
        ELSE IF Ch(s, j) = "}" THEN Parsed(Dict(more), j + 1)
        ELSE IF Ch(s, j) = "," THEN ParseMembers(s, SkipWs(s, j + 1), more)
        ELSE ParseError

ParseValue(s, i) ==
    LET c == Ch(s, i)
    IN  CASE c = "\"" ->
               LET q == CloseQuote(s, i)
               IN  IF q = 0 THEN ParseError ELSE Parsed(Str(Slice(s, i + 1, q - 1)), q + 1)
          [] c = "{" ->
               LET j == SkipWs(s, i + 1)
               IN  IF Ch(s, j) = "}" THEN Parsed(Dict(<<>>), j + 1)
                   ELSE ParseMembers(s, j, <<>>)
          [] c = "[" ->
               LET j == SkipWs(s, i + 1)
               IN  IF Ch(s, j) = "]" THEN Parsed(List(<<>>), j + 1)
                   ELSE ParseElements(s, j, <<>>)
          [] c \in Digit ->
               LET n == DigitRun(s, i)
               IN  IF c = "0" /\ n > 1 THEN Parsed(Num(0), i + 1)
                   ELSE Parsed(Num(StrToNum(Slice(s, i, i + n - 1))), i + n)
          [] IsAt(s, i, "null") -> Parsed(None, i + 4)
          [] IsAt(s, i, "true") -> Parsed(Bool(TRUE), i + 4)
          [] IsAt(s, i, "false") -> Parsed(Bool(FALSE), i + 5)
          [] OTHER -> ParseError

\* json.loads(text): the value, or ParseError where json.loads raises
\* JSONDecodeError (no value, or extra data after it)
loads(text) ==
    LET e == ParseValue(text, SkipWs(text, 1))
    IN  IF e.ok /\ SkipWs(text, e.pos) = Len(text) + 1 THEN e ELSE ParseError

\* make_safe_payload, src/app.py lines 51-55, as one call: the text it
\* returns, or the exception that leaves it
make_safe_payload(key, x) ==
    LET r == IF x.t = "str" THEN loads(x.v) ELSE Parsed(x, 0)
        data == allowlist(IF r.val.t = "dict" THEN r.val ELSE Dict(<<>>))
    IN  IF r.ok THEN [exc |-> "", out |-> dumps(scrub(key, data))]
        ELSE [exc |-> "JSONDecodeError", out |-> ""]

(***************************************************************************)
(* The helpers of lambda_handler, src/app.py lines 70-123.                 *)
(***************************************************************************)
Has(d, k) == \E i \in 1..Len(d.v) : d.v[i].k = k

\* d[k] of a dict that has k; the last item wins
Lookup(d, k) ==
    d.v[CHOOSE i \in 1..Len(d.v) : d.v[i].k = k /\ \A j \in (i + 1)..Len(d.v) : d.v[j].k # k].v

\* d.get(k)
Get(d, k) == IF Has(d, k) THEN Lookup(d, k) ELSE None

\* bool(x)
Truthy(x) ==
    CASE x.t = "null" -> FALSE
      [] x.t = "bool" -> x.v
      [] x.t = "num" -> x.v # 0
      [] x.t = "str" -> x.v # ""
      [] OTHER -> Len(x.v) > 0

\* a or b
Or(a, b) == IF Truthy(a) THEN a ELSE b

RECURSIVE Replace(_, _, _)
\* s.replace(ch, by) for a single character ch
Replace(s, ch, by) ==
    IF s = "" THEN ""
    ELSE (IF Ch(s, 1) = ch THEN by ELSE Ch(s, 1)) \o Replace(Slice(s, 2, Len(s)), ch, by)

\* s.strip()
Strip(s) ==
    LET keep == {i \in 1..Len(s) : Ch(s, i) \notin SpaceChar}
    IN  IF keep = {} THEN "" ELSE Slice(s, SetMin(keep), SetMax(keep))

\* lines 70-71
_normalize(text) == Strip(Replace(Replace(text, "\n", " "), "*", ""))

\* lines 106-113
_parse_body(event) ==
    LET body == Get(event, "body")
        r == loads(body.v)
    IN  IF body.t = "str" THEN (IF r.ok THEN r.val ELSE Dict(<<>>))
        ELSE IF body.t = "dict" THEN body ELSE Dict(<<>>)

\* lines 115-123
_extract_case_id(sec) ==
    LET r == loads(sec.v)
    IN  IF sec.t = "dict" THEN Or(Get(sec, "case_id"), Str("NA"))
        ELSE IF sec.t = "str"
             THEN (IF r.ok /\ r.val.t = "dict"
                   THEN Or(Get(r.val, "case_id"), Str("NA")) ELSE Str("NA"))
        ELSE Str("NA")

\* str(x) in an f-string, for the values a case_id takes here
Format(x) == IF x.t = "num" THEN NumToStr(x.v) ELSE x.v

(***************************************************************************)
(* The bounded inputs.                                                     *)
(***************************************************************************)
\* how many strings of StrPool occur as leaves
NStr == 2
\* how deep a value is wrapped in lists and dicts
MaxDepth == 1

StrPool ==
    << "acct 123456 ref x123456",
       "Contact j@b.co, card 4111111111111111",
       "c.com via 1.2.3.4",
       "see http://a.com/?u=j@b.co" >>

StrLeaves == {Str(StrPool[i]) : i \in 1..Min(NStr, Len(StrPool))}
Leaves == StrLeaves \cup {Num(250000), Bool(TRUE), None}

RECURSIVE Values(_)
Values(d) ==
    IF d = 0 THEN Leaves
    ELSE LET V == Values(d - 1)
         IN  V \cup {List(<<x, None>>) : x \in V}
               \cup {Dict(<<Item("ip", x), Item("n", Num(7))>>) : x \in V}

TopKeys == {"summary", "timeline", "ip"}

\* the record of the specification's scenario 7, in two key orders
Scenario(x) ==
    { Dict(<<Item("case_id", Str("C-1")), Item("summary", x),
             Item("ip", Str("should be dropped"))>>),
      Dict(<<Item("ip", Str("should be dropped")), Item("summary", x),
             Item("case_id", Str("C-1"))>>) }

Records ==
    {Dict(<<Item(k, x)>>) : k \in TopKeys, x \in Values(MaxDepth)}
      \cup UNION {Scenario(x) : x \in StrLeaves}

\* what a caller passes that is not a str: records, and values that are no mapping
Objects == Records \cup {x \in Values(MaxDepth) : x.t # "str"}

BadTexts == {"not valid structured text", "{\"summary\": ", ""}

\* what a caller passes as a str: JSON texts and texts that are no JSON
Texts == {dumps(x) : x \in Objects \cup StrLeaves} \cup BadTexts

Inputs == Objects \cup {Str(x) : x \in Texts}

\* how many fragments of FragPool are used, and how many make up a string
NFrag == 8
MaxParts == 2

FragPool ==
    << "j@b.co", "http://a.com/?u=", "c.com", "123456", " 1234567",
       "4111111111111111", "123-45-6789", "1.2.3.4", " x", "-" >>

Frags == {FragPool[i] : i \in 1..Min(NFrag, Len(FragPool))}

RECURSIVE Concats(_)
Concats(n) ==
    IF n = 0 THEN {""}
    ELSE LET C == Concats(n - 1) IN C \cup {a \o f : a \in C, f \in Frags}

\* the strings given to _scrub_str
ScrubInputs == Concats(MaxParts)

\* the calls that run beside another one
Callers == {"t1", "t2"}
ConcurrentInputs ==
    {Dict(<<Item("case_id", Str("C-1")), Item("summary", Str(StrPool[1])),
            Item("ip", Str("should be dropped"))>>)}
InputsOf(c) == IF c = "t1" THEN Inputs ELSE ConcurrentInputs

\* the values of REDACTION_SECRET in the environment of the process
Unset == [set |-> FALSE, val |-> ""]
Setenv(x) == [set |-> TRUE, val |-> x]
Environments == {Unset, Setenv(""), Setenv("k3y")}

(***************************************************************************)
(* State.                                                                  *)
(***************************************************************************)
VARIABLES
    env,        \* os.environ: the setting of REDACTION_SECRET
    _SECRET,    \* the module global of line 11: [loaded, key]
    calls,      \* the calls of make_safe_payload, one per caller
    sc,         \* a run of _scrub_str, one re.sub after the other
    PROFILE_ARN,\* the module global of line 59
    req,        \* the request lambda_handler is serving
    s3          \* the objects put into BUCKET, in the order of the puts

handlerVars == <<PROFILE_ARN, req, s3>>

vars == <<env, _SECRET, calls, sc, handlerVars>>

Idle == [pc |-> "idle", arg |-> None, parsed |-> None, allowed |-> None,
         scrubbed |-> None, out |-> "", exc |-> ""]

\* _scrub_str(x) about to apply Patterns[1]
Enter(x, pass) ==
    [input |-> x, pass |-> pass, k |-> 1, cur |-> x, prev |-> x, ms |-> <<>>,
     applied |-> <<>>, toks |-> {}, hits |-> {}, first |-> ""]

NoScrub == Enter("", 0)

\* os.environ.get("INFERENCE_PROFILE_ARN"): None when the variable is unset
ProfileArns == {None, Str("arn:aws:bedrock:us-east-1:1:inference-profile/p")}

\* lambda_handler between two invocations
NoRequest ==
    [pc |-> "idle", n |-> 0, event |-> None, payload |-> None, sec |-> None,
     safe_json |-> "", narrative |-> "", invoked |-> FALSE, puts |-> 0,
     exc |-> "", statusCode |-> 0]

NoHandler ==
    /\ PROFILE_ARN \in {x \in ProfileArns : x # None}
    /\ req = NoRequest
    /\ s3 = <<>>

Init ==
    /\ env \in Environments
    /\ _SECRET = [loaded |-> FALSE, key |-> ""]
    /\ calls = [c \in Callers |-> Idle]
    /\ sc = NoScrub
    /\ NoHandler

\* os.environ.get("REDACTION_SECRET", "project-secret").encode(), line 11
EnvironGet(e, default) == IF e.set THEN e.val ELSE default

\* the import of the module: line 11 runs once, before any call
ImportModule ==
    /\ ~_SECRET.loaded
    /\ _SECRET' = [loaded |-> TRUE, key |-> EnvironGet(env, "project-secret")]
    /\ UNCHANGED <<env, calls, sc, handlerVars>>

\* a caller enters make_safe_payload(x)
Call(c) ==
    /\ _SECRET.loaded
    /\ calls[c].pc = "idle"
    /\ \E x \in InputsOf(c) :
          calls' = [calls EXCEPT ![c] = [Idle EXCEPT !.pc = "loads", !.arg = x]]
    /\ UNCHANGED <<env, _SECRET, sc, handlerVars>>

\* line 52: json.loads of a str argument; JSONDecodeError leaves the function
Loads(c) ==
    /\ calls[c].pc = "loads"
    /\ LET x == calls[c].arg
           r == loads(x.v)
       IN  calls' = [calls EXCEPT ![c] =
              IF x.t # "str" THEN [@ EXCEPT !.pc = "allowlist", !.parsed = x]
              ELSE IF r.ok THEN [@ EXCEPT !.pc = "allowlist", !.parsed = r.val]
              ELSE [@ EXCEPT !.pc = "raised", !.exc = "JSONDecodeError"]]
    /\ UNCHANGED <<env, _SECRET, sc, handlerVars>>

\* line 53: allowlist(data if isinstance(data, dict) else {})
Allowlist(c) ==
    /\ calls[c].pc = "allowlist"
    /\ LET data == calls[c].parsed
       IN  calls' = [calls EXCEPT ![c] =
              [@ EXCEPT !.pc = "scrub",
                        !.allowed = allowlist(IF data.t = "dict" THEN data ELSE Dict(<<>>))]]
    /\ UNCHANGED <<env, _SECRET, sc, handlerVars>>

\* Scrub with a key that is salted per call: _SECRET is written after the import
ScrubRekey(c) ==
    /\ calls[c].pc = "scrub"
    /\ calls' = [calls EXCEPT ![c] =
          [@ EXCEPT !.pc = "dumps", !.scrubbed = scrub(_SECRET.key, calls[c].allowed)]]
    /\ _SECRET' = [_SECRET EXCEPT !.key = @ \o c]
    /\ UNCHANGED <<env, sc, handlerVars>>

\* line 54: scrub(data), which reads _SECRET in _stable_tag
Scrub(c) ==
    /\ calls[c].pc = "scrub"
    /\ calls' = [calls EXCEPT ![c] =
          [@ EXCEPT !.pc = "dumps", !.scrubbed = scrub(_SECRET.key, calls[c].allowed)]]
    /\ UNCHANGED <<env, _SECRET, sc, handlerVars>>

\* line 55: return json.dumps(data, ensure_ascii=False)
Dumps(c) ==
    /\ calls[c].pc = "dumps"
    /\ calls' = [calls EXCEPT ![c] =
          [@ EXCEPT !.pc = "returned", !.out = dumps(calls[c].scrubbed)]]
    /\ UNCHANGED <<env, _SECRET, sc, handlerVars>>

Next ==
    \/ ImportModule
    \/ \E c \in Callers : Call(c)
    \/ \E c \in Callers : Loads(c)
    \/ \E c \in Callers : Allowlist(c)
    \/ \E c \in Callers : Scrub(c)
    \/ \E c \in Callers : Dumps(c)

Spec == Init /\ [][Next]_vars

(***************************************************************************)
(* _scrub_str step by step: lines 26-32 are seven assignments to s, each   *)
(* one re.sub over the string the previous ones left.  sc.toks are the     *)
(* places of the tags in sc.cur that this pass has emitted and no later    *)
(* match has touched; sc.hits records every match that overlapped one.     *)
(***************************************************************************)
TagLen(kind) == Len(kind) + DigestLen + 3

RECURSIVE Growth(_, _, _, _)
\* by how much the replacement of the matches k.. of ms that end at or
\* before x moves position x
Growth(ms, kind, x, k) ==
    IF k > Len(ms) THEN 0
    ELSE (IF ms[k].hi <= x THEN TagLen(kind) - (ms[k].hi - ms[k].lo) ELSE 0)
           + Growth(ms, kind, x, k + 1)

Overlaps(m, t) == m.lo < t.hi /\ t.lo < m.hi

InitScrub ==
    /\ env \in {Unset, Setenv("k3y")}
    /\ _SECRET = [loaded |-> FALSE, key |-> ""]
    /\ calls = [c \in Callers |-> Idle]
    /\ sc \in {Enter(x, 1) : x \in ScrubInputs}
    /\ NoHandler

\* one of lines 26-32: s = pattern.sub(lambda m: _stable_tag(kind, m.group()), s)
ScrubStep ==
    /\ _SECRET.loaded
    /\ sc.pass > 0
    /\ sc.k <= NPatterns
    /\ LET p == Patterns[sc.k]
           ms == FindAll(p, sc.cur)
           touched == {t \in sc.toks : \E i \in 1..Len(ms) : Overlaps(ms[i], t)}
           move(x) == x + Growth(ms, p.kind, x, 1)
       IN  sc' = [sc EXCEPT
                    !.k = @ + 1,
                    !.prev = sc.cur,
                    !.ms = ms,
                    !.cur = Splice(_SECRET.key, p.kind, sc.cur, ms, 1, 1),
                    !.applied = Append(@, p.kind),
                    !.toks = {[lo |-> move(t.lo), hi |-> move(t.hi)] : t \in sc.toks \ touched}
                               \cup {[lo |-> move(ms[i].lo),
                                      hi |-> move(ms[i].lo) + TagLen(p.kind)] : i \in 1..Len(ms)},
                    !.hits = @ \cup {[by |-> p.kind, tag |-> Slice(sc.cur, t.lo, t.hi - 1)] :
                                        t \in touched}]
    /\ UNCHANGED <<env, _SECRET, calls, handlerVars>>

\* the result of _scrub_str is given to _scrub_str again
ScrubAgain ==
    /\ sc.pass = 1
    /\ sc.k > NPatterns
    /\ sc' = [Enter(sc.cur, 2) EXCEPT !.input = sc.input, !.first = sc.cur]
    /\ UNCHANGED <<env, _SECRET, calls, handlerVars>>

NextScrub == ImportModule \/ ScrubStep \/ ScrubAgain

SpecScrub == InitScrub /\ [][NextScrub]_vars

(***************************************************************************)
(* lambda_handler, src/app.py lines 125-149, one request after the other.  *)
(***************************************************************************)
\* how many requests the handler serves
MaxRequests == 2

\* what a request carries under security_detail_json
SecValues ==
    { Dict(<<Item("case_id", Str("C-1")), Item("summary", Str(StrPool[1]))>>),
      Dict(<<Item("summary", Str("j@b.co"))>>),
      Str("{\"case_id\": \"C-1\"}"),
      Str("not valid structured text"),
      Num(7) }

Bodies ==
    {Dict(<<Item("security_detail_json", x)>>) : x \in SecValues}
      \cup {Str(dumps(Dict(<<Item("security_detail_json", x)>>))) :
               x \in {y \in SecValues : y.t = "dict"}}
      \cup {Dict(<<Item("other", Num(1))>>), Str("{\"other\": 1}"), Str("not json"),
            Str("[]"), Str("7"), Num(7)}

Events == {Dict(<<Item("body", b)>>) : b \in Bodies} \cup {Dict(<<>>)}

\* data.get("generation") of the model's response
Generations == {None, Str(""), Str("**\n"), Str("A *SAR*\nnarrative.\n")}

\* datetime.utcnow().strftime("%Y%m%dT%H%M%SZ")
Timestamps == {"20260101T000000Z", "20260101T000001Z"}

InitHandler ==
    /\ env \in {Unset}
    /\ _SECRET = [loaded |-> TRUE, key |-> EnvironGet(env, "project-secret")]
    /\ calls = [c \in Callers |-> Idle]
    /\ sc = NoScrub
    /\ PROFILE_ARN \in ProfileArns
    /\ req = NoRequest
    /\ s3 = <<>>

\* the return of a response with status code c; exc is the exception caught
Return(c, exc) == [req EXCEPT !.pc = "done", !.statusCode = c, !.exc = exc]

\* the runtime calls lambda_handler(event, context)
Receive ==
    /\ req.pc = "idle"
    /\ req.n < MaxRequests
    /\ \E e \in Events :
          req' = [NoRequest EXCEPT !.pc = "parse", !.n = req.n + 1, !.event = e]
    /\ UNCHANGED <<env, _SECRET, calls, sc, PROFILE_ARN, s3>>

\* lines 127-128: payload = _parse_body(event); sec = payload["security_detail_json"]
ParseBody ==
    /\ req.pc = "parse"
    /\ LET payload == _parse_body(req.event)
       IN  req' = IF payload.t # "dict" THEN Return(502, "TypeError")
                  ELSE IF ~Has(payload, "security_detail_json") THEN Return(400, "KeyError")
                  ELSE [req EXCEPT !.pc = "make_safe", !.payload = payload,
                                   !.sec = Lookup(payload, "security_detail_json")]
    /\ UNCHANGED <<env, _SECRET, calls, sc, PROFILE_ARN, s3>>

\* lines 74-85: safe_json = make_safe_payload(sec), then the check of PROFILE_ARN
MakeSafe ==
    /\ req.pc = "make_safe"
    /\ LET r == make_safe_payload(_SECRET.key, req.sec)
       IN  req' = IF r.exc # "" THEN Return(502, r.exc)
                  ELSE IF ~Truthy(PROFILE_ARN) THEN Return(502, "RuntimeError")
                  ELSE [req EXCEPT !.pc = "invoke", !.safe_json = r.out]
    /\ UNCHANGED <<env, _SECRET, calls, sc, PROFILE_ARN, s3>>

\* lines 89-96 and 130-132: bedrock.invoke_model raises or answers; an empty
\* narrative is answered with 502
Invoke ==
    /\ req.pc = "invoke"
    /\ \/ req' = Return(502, "ClientError")
       \/ \E g \in Generations :
             LET narrative == _normalize(Or(g, Str("")).v)
                 r == [req EXCEPT !.invoked = TRUE, !.narrative = narrative]
             IN  req' = IF narrative = "" THEN [r EXCEPT !.pc = "done", !.statusCode = 502]
                        ELSE [r EXCEPT !.pc = "save"]
    /\ UNCHANGED <<env, _SECRET, calls, sc, PROFILE_ARN, s3>>

\* lines 134-139: the key, the object, and s3.put_object, which stores or raises
Save ==
    /\ req.pc = "save"
    /\ \E ts \in Timestamps :
          LET case_id == _extract_case_id(req.sec)
              key == "sar-output/" \o Format(case_id) \o "/" \o ts \o ".json"
              out == Dict(<<Item("case_id", case_id), Item("timestamp", Str(ts)),
                            Item("model", Str("meta.llama3-2-1b-instruct (profile)")),
                            Item("narrative", Str(req.narrative))>>)
          IN  \/ /\ s3' = Append(s3, [Bucket |-> "sar-output-bucket", Key |-> key,
                                      Body |-> dumps(out)])
                 /\ req' = [req EXCEPT !.pc = "respond", !.puts = @ + 1]
              \/ /\ req' = Return(502, "ClientError")
                 /\ UNCHANGED s3
    /\ UNCHANGED <<env, _SECRET, calls, sc, PROFILE_ARN>>

\* lines 141-143
Respond ==
    /\ req.pc = "respond"
    /\ req' = [req EXCEPT !.pc = "done", !.statusCode = 200]
    /\ UNCHANGED <<env, _SECRET, calls, sc, PROFILE_ARN, s3>>

\* the response is out; the handler waits for the next event
Finish ==
    /\ req.pc = "done"
    /\ req' = [NoRequest EXCEPT !.n = req.n]
    /\ UNCHANGED <<env, _SECRET, calls, sc, PROFILE_ARN, s3>>

NextHandler ==
    Receive \/ ParseBody \/ MakeSafe \/ Invoke \/ Save \/ Respond \/ Finish

SpecHandler == InitHandler /\ [][NextHandler]_vars

(***************************************************************************)
(* Properties of make_safe_payload, checked under Spec.                    *)
(***************************************************************************)
\* sub occurs in s
Occurs(sub, s) ==
    \E i \in 1..(Len(s) - Len(sub) + 1) : Slice(s, i, i + Len(sub) - 1) = sub

KeySet(d) == {d.v[i].k : i \in 1..Len(d.v)}

RECURSIVE StringsOf(_)
\* the string values of a tree, at any depth
StringsOf(x) ==
    CASE x.t = "str" -> {x.v}
      [] x.t = "list" -> UNION {StringsOf(x.v[i]) : i \in 1..Len(x.v)}
      [] x.t = "dict" -> UNION {StringsOf(x.v[i].v) : i \in 1..Len(x.v)}
      [] OTHER -> {}

\* the substrings of s that pattern p matches
MatchesOf(p, s) ==
    LET ms == FindAll(p, s)
    IN  {Slice(s, ms[i].lo, ms[i].hi - 1) : i \in 1..Len(ms)}

RECURSIVE SameShape(_, _)
\* a and b differ at most in the content of their string leaves
SameShape(a, b) ==
    /\ a.t = b.t
    /\ CASE a.t = "str" -> TRUE
         [] a.t = "list" ->
               /\ Len(a.v) = Len(b.v)
               /\ \A i \in 1..Len(a.v) : SameShape(a.v[i], b.v[i])
         [] a.t = "dict" ->
               /\ Keys(a) = Keys(b)
               /\ \A i \in 1..Len(a.v) : SameShape(a.v[i].v, b.v[i].v)
         [] OTHER -> a = b

\* tag is "[" kind ":" DigestLen lowercase hex characters "]"
TagShape(kind, tag) ==
    /\ Len(tag) = Len(kind) + DigestLen + 3
    /\ Slice(tag, 1, Len(kind) + 2) = "[" \o kind \o ":"
    /\ Ch(tag, Len(tag)) = "]"
    /\ \A i \in (Len(kind) + 3)..(Len(tag) - 1) : Occurs(Ch(tag, i), HexDigits)

\* C1: a call of make_safe_payload with a text that is not JSON does not
\* raise, and returns the serialization of the empty record, "{}".
C1_TotalOnText ==
    \A c \in Callers :
        (calls[c].arg.t = "str" /\ ~loads(calls[c].arg.v).ok) =>
            /\ calls[c].pc # "raised"
            /\ calls[c].pc = "returned" => calls[c].out = "{}"

\* C2: no leakage: in the text make_safe_payload returns for a record, no
\* substring that one of the seven patterns matches in a string value of the
\* record (at any depth) occurs.
C2_NoLeak ==
    \A c \in Callers :
        (calls[c].pc = "returned" /\ calls[c].parsed.t = "dict") =>
            \A s \in StringsOf(calls[c].parsed) : \A i \in 1..NPatterns :
                \A m \in MatchesOf(Patterns[i], s) : ~Occurs(m, calls[c].out)

\* C4: with REDACTION_SECRET unset or empty the engine does not start: the
\* key is never loaded and no call of make_safe_payload is processed.
C4_RefusesToStart ==
    (~env.set \/ env.val = "") =>
        /\ ~_SECRET.loaded
        /\ \A c \in Callers : calls[c].pc = "idle"

\* C5: the allowlist step yields a mapping whose keys are exactly the
\* top-level keys of the parsed input that are in ALLOWED_FIELDS, each with
\* its original value, nested content included; an input that is no mapping
\* yields the empty mapping.
C5_AllowlistExact ==
    \A c \in Callers :
        calls[c].pc \in {"scrub", "dumps", "returned"} =>
            LET d == calls[c].parsed
                a == calls[c].allowed
            IN  /\ a.t = "dict"
                /\ d.t # "dict" => a.v = <<>>
                /\ d.t = "dict" =>
                      /\ KeySet(a) = KeySet(d) \cap ALLOWED_FIELDS
                      /\ Len(a.v) = Cardinality(KeySet(a))
                      /\ \A k \in KeySet(a) : Lookup(a, k) = Lookup(d, k)

\* a record with a key that is dropped, a key that is kept and a kept value
\* that holds a key outside ALLOWED_FIELDS below the top level
C5_Witness ==
    \E c \in Callers :
        /\ calls[c].pc = "scrub"
        /\ calls[c].parsed.t = "dict"
        /\ \E i \in 1..Len(calls[c].allowed.v) :
              /\ calls[c].allowed.v[i].v.t = "dict"
              /\ KeySet(calls[c].allowed.v[i].v) \ ALLOWED_FIELDS # {}

\* C6: scrub keeps the shape of the tree it is given: the same keys in the
\* same order in every mapping, the same length and order of every sequence,
\* numbers, booleans and null unchanged; only string leaves differ.
C6_SameShape ==
    \A c \in Callers :
        calls[c].pc \in {"dumps", "returned"} =>
            SameShape(calls[c].allowed, calls[c].scrubbed)

\* scrub has rewritten a string below a sequence that also holds a null
C6_Witness ==
    \E c \in Callers :
        /\ calls[c].pc = "dumps"
        /\ calls[c].scrubbed # calls[c].allowed
        /\ \E i \in 1..Len(calls[c].allowed.v) :
              /\ calls[c].allowed.v[i].v.t = "list"
              /\ calls[c].allowed.v[i].v.v[2] = None
              /\ calls[c].scrubbed.v[i].v.v[1] # calls[c].allowed.v[i].v.v[1]

DigitRuns(s) ==
    {r \in {[lo |-> i, hi |-> i + DigitRun(s, i)] : i \in 1..Len(s)} :
        /\ r.hi > r.lo
        /\ Ch(s, r.lo - 1) \notin Digit
        /\ IsBoundary(s, r.lo)
        /\ IsBoundary(s, r.hi)}

PatternOrder == <<"EMAIL", "SSN", "CARD", "ACCT", "IP", "URL", "DOMAIN">>

\* the matches of the re.sub that has just run
LastMatches == {sc.ms[i] : i \in 1..Len(sc.ms)}

\* the re.sub of kind has just run
Applied(kind) == sc.k > 1 /\ sc.applied[sc.k - 1] = kind

\* C3: _scrub_str is idempotent: scrubbing its result again returns it
\* unchanged.
C3_Idempotent ==
    (sc.pass = 2 /\ sc.k > NPatterns) => sc.cur = sc.first

\* C8: within a pass of _scrub_str no pattern matches text that is (part
\* of) a token an earlier pattern of the pass has emitted.
C8_TokensUntouched == sc.hits = {}

Separated(s, r) == Ch(s, r.lo - 1) \in {" ", "-"} \/ Ch(s, r.hi) \in {" ", "-"}

HasSecurityDetail(event) ==
    LET body == Get(event, "body")
        r == loads(body.v)
        data == IF body.t = "str" THEN (IF r.ok THEN r.val ELSE None) ELSE body
    IN  data.t = "dict" /\ Has(data, "security_detail_json")

\* C10: a request is written to storage at most once, and only after the
\* model has returned a narrative that is not empty; 200 is answered only
\* after the write; a request without security_detail_json is answered 400,
\* an empty narrative or a failure 502, both without a write.
C10_HandlerContract ==
    /\ req.puts <= 1
    /\ req.puts = 1 => (req.invoked /\ req.narrative # "")
    /\ req.statusCode = 200 => req.puts = 1
    /\ req.pc = "done" =>
          /\ req.statusCode \in {200, 400, 502}
          /\ ~HasSecurityDetail(req.event) => req.statusCode = 400
          /\ (req.exc # "" \/ (req.invoked /\ req.narrative = "")) =>
                req.statusCode \in {400, 502}
          /\ req.statusCode \in {400, 502} => req.puts = 0
====
